---------------------------- MODULE Spec2Model ----------------------------
(***************************************************************************)
(* University database generator (university_database_generator.py).      *)
(*                                                                         *)
(* UniversityDatabaseManager.run_database_generation is modelled as a     *)
(* state machine: one action per stage of the orchestrator (each seeding  *)
(* stage together with the commit that follows it), the except handler    *)
(* and the finally block.  The SQLite store is modelled as the committed  *)
(* tables plus the rows of the open, uncommitted transaction.             *)
(***************************************************************************)
EXTENDS Integers, Sequences, FiniteSets, TLC

VARIABLES
    pc,           \* position inside run_database_generation ("idle": no call active)
    conn,         \* self.conn: "None", "open" or "closed"
    used_emails,  \* self.used_emails
    runs,         \* calls of run_database_generation made on this manager
    schema,       \* tables that exist in the database file
    tables,       \* committed rows of each table
    txn,          \* rows inserted by the open transaction, not yet committed
    exc,          \* exception in flight / with which the call ended
    failed,       \* stage in which exc was raised
    out           \* lines printed by the current call

vars == <<pc, conn, used_emails, runs, schema, tables, txn, exc, failed, out>>

----------------------------------------------------------------------------
(* Bounds of the model *)

\* calls of run_database_generation on one manager object
MaxRuns == 2

\* students generated per run (the program's default is 1200)
num_students == 3

\* how many of the seven hard-coded departments are seeded
NumDepartments == 2

----------------------------------------------------------------------------
(* Program constants *)

TableNames == {"Enrollments", "Courses", "Departments", "Students"}

AllDepartments ==
    << <<"Computer Science", 1985>>, <<"Mathematics", 1970>>,
       <<"Physics", 1960>>, <<"Biology", 1975>>, <<"Chemistry", 1965>>,
       <<"Engineering", 1980>>, <<"Economics", 1990>> >>

departments == SubSeq(AllDepartments, 1, NumDepartments)

course_levels == <<"Introductory", "Intermediate", "Advanced">>

semesters == <<"Fall", "Spring", "Summer">>

academic_years == <<2018, 2019, 2020, 2021, 2022, 2023>>

MinCourses == 3
MaxCourses == 5

\* dept_name[:3].upper()
Prefix(dept_name) ==
    CASE dept_name = "Computer Science" -> "COM"
      [] dept_name = "Mathematics"      -> "MAT"
      [] dept_name = "Physics"          -> "PHY"
      [] dept_name = "Biology"          -> "BIO"
      [] dept_name = "Chemistry"        -> "CHE"
      [] dept_name = "Engineering"      -> "ENG"
      [] dept_name = "Economics"        -> "ECO"

Stages == <<"create_connection", "create_tables", "generate_departments",
            "generate_courses", "generate_students", "generate_enrollments",
            "report">>

StageNo(s) == CHOOSE i \in 1..Len(Stages) : Stages[i] = s

EmptyTables == [t \in TableNames |-> <<>>]

----------------------------------------------------------------------------
(* Strings are sequences of one-character strings, so that lower(), the    *)
(* decimal formatting of the counter and concatenation are computed.       *)

LowerChar(c) ==
    CASE c = "J" -> "j"
      [] c = "L" -> "l"
      [] c = "O" -> "o"
      [] c = "I" -> "i"
      [] OTHER   -> c

Lower(s) == [i \in 1..Len(s) |-> LowerChar(s[i])]

Digits == <<"0", "1", "2", "3", "4", "5", "6", "7", "8", "9">>

\* str(n) of a natural number
RECURSIVE Str(_)
Str(n) == IF n < 10 THEN <<Digits[n + 1]>>
          ELSE Str(n \div 10) \o <<Digits[(n % 10) + 1]>>

Domain == <<"@university.edu">>

\* the while loop of generate_unique_email, from a candidate and a counter
RECURSIVE FirstFree(_, _, _, _)
FirstFree(base_email, email, counter, used) ==
    IF email \in used
    THEN FirstFree(base_email, base_email \o Str(counter) \o Domain,
                   counter + 1, used)
    ELSE email

\* variant: the collision is tested once (if) instead of until free (while)
generate_unique_email_once(first_name, last_name, used) ==
    LET base_email == Lower(first_name) \o <<".">> \o Lower(last_name)
    IN  IF base_email \o Domain \in used
        THEN base_email \o Str(1) \o Domain
        ELSE base_email \o Domain

generate_unique_email(first_name, last_name, used) ==
    LET base_email == Lower(first_name) \o <<".">> \o Lower(last_name)
    IN  FirstFree(base_email, base_email \o Domain, 1, used)


----------------------------------------------------------------------------
(* The SQLite store.  Columns that nothing in this development reads      *)
(* (course_name, credit_hours, gender, date_of_birth, enrollment_status,  *)
(* total_credits, gpa, grade) are left out of the rows.  Foreign keys are *)
(* declared but not enforced by SQLite (no PRAGMA foreign_keys).          *)

\* what a SELECT on the connection sees: committed rows and its own inserts
View(tbls, tx, t) == tbls[t] \o tx[t]

\* the row INSERT stores for parameters p; AUTOINCREMENT keys of a table
\* created in this run count from 1
MakeRow(t, p, rows) ==
    CASE t = "Departments" ->
            [department_id |-> Len(rows) + 1, department_name |-> p[1],
             established_year |-> p[2]]
      [] t = "Courses" ->
            [course_id |-> p[1], department_id |-> p[2], course_level |-> p[3]]
      [] t = "Students" ->
            [student_id |-> Len(rows) + 1, first_name |-> p[1],
             last_name |-> p[2], email |-> p[3]]
      [] t = "Enrollments" ->
            [enrollment_id |-> Len(rows) + 1, student_id |-> p[1],
             course_id |-> p[2], semester |-> p[3], academic_year |-> p[4]]

\* the UNIQUE / PRIMARY KEY constraints of CREATE TABLE
Conflict(t, row, rows) ==
    \E i \in 1..Len(rows) :
        CASE t = "Departments" ->
                rows[i].department_name = row.department_name
          [] t = "Courses" -> rows[i].course_id = row.course_id
          [] t = "Students" -> rows[i].email = row.email
          [] t = "Enrollments" ->
                /\ rows[i].student_id = row.student_id
                /\ rows[i].course_id = row.course_id
                /\ rows[i].semester = row.semester
                /\ rows[i].academic_year = row.academic_year

\* cursor.executemany(INSERT ...): rows go in one by one; the first row that
\* violates a constraint raises and the rows before it stay in the transaction
RECURSIVE executemany(_, _, _, _)
executemany(t, params, existing, done) ==
    IF params = <<>> THEN [ok |-> TRUE, rows |-> done]
    ELSE LET row == MakeRow(t, Head(params), existing \o done)
         IN  IF Conflict(t, row, existing \o done)
             THEN [ok |-> FALSE, rows |-> done]
             ELSE executemany(t, Tail(params), existing, Append(done, row))

\* conn.commit()
Commit(tbls, tx) == [t \in TableNames |-> tbls[t] \o tx[t]]

\* variant: the open transaction is committed when the connection closes
CloseCommitting(tbls, tx) == [tables |-> Commit(tbls, tx), txn |-> EmptyTables]

\* conn.close(): an open transaction is rolled back
Close(tbls, tx) == [tables |-> tbls, txn |-> EmptyTables]

\* variant: Departments is missing from the list of tables to drop
StatementsKeepingDepartments ==
    << <<"DROP", "Enrollments">>, <<"DROP", "Courses">>,
       <<"DROP", "Students">>,
       <<"CREATE", "Students">>, <<"CREATE", "Departments">>,
       <<"CREATE", "Courses">>, <<"CREATE", "Enrollments">> >>

\* the statements of create_tables, in order
Statements ==
    << <<"DROP", "Enrollments">>, <<"DROP", "Courses">>,
       <<"DROP", "Departments">>, <<"DROP", "Students">>,
       <<"CREATE", "Students">>, <<"CREATE", "Departments">>,
       <<"CREATE", "Courses">>, <<"CREATE", "Enrollments">> >>

\* the first n statements run one by one, each committed on its own (DDL
\* outside a transaction); CREATE TABLE of an existing table raises
RECURSIVE RunStatements(_, _, _, _)
RunStatements(stmts, n, sch, tbls) ==
    IF n = 0 \/ stmts = <<>> THEN [ok |-> TRUE, schema |-> sch, tables |-> tbls]
    ELSE LET op == Head(stmts)[1]
             t  == Head(stmts)[2]
         IN  IF op = "DROP"
             THEN RunStatements(Tail(stmts), n - 1, sch \ {t},
                                [tbls EXCEPT ![t] = <<>>])
             ELSE IF t \in sch
                  THEN [ok |-> FALSE, schema |-> sch, tables |-> tbls]
                  ELSE RunStatements(Tail(stmts), n - 1, sch \cup {t}, tbls)

----------------------------------------------------------------------------
(* Data synthesis.  Every random draw is an input of the action.           *)

StorageErrors == {"IntegrityError", "OperationalError", "IOError"}

\* variant: the department's position in the fetched list, counted from 0,
\* is stored instead of its department_id
CourseParamsByPosition(dept_rows, numbers) ==
    [k \in 1..(Len(dept_rows) * Len(course_levels)) |->
        LET d     == dept_rows[((k - 1) \div Len(course_levels)) + 1]
            level == course_levels[((k - 1) % Len(course_levels)) + 1]
        IN  << <<Prefix(d.department_name), numbers[k]>>,
               (k - 1) \div Len(course_levels), level >>]

\* the courses list of generate_courses: for each department row and each
\* level, (course_id, department_id, level); numbers[k] is the k-th randint
CourseParams(dept_rows, numbers) ==
    [k \in 1..(Len(dept_rows) * Len(course_levels)) |->
        LET d     == dept_rows[((k - 1) \div Len(course_levels)) + 1]
            level == course_levels[((k - 1) % Len(course_levels)) + 1]
        IN  << <<Prefix(d.department_name), numbers[k]>>, d.department_id, level >>]

\* the students list of generate_students and the emails issued on the way
RECURSIVE StudentParams(_, _, _)
StudentParams(names, used, acc) ==
    IF names = <<>> THEN [students |-> acc, used |-> used]
    ELSE LET first_name == Head(names)[1]
             last_name  == Head(names)[2]
             email      == generate_unique_email(first_name, last_name, used)
         IN  StudentParams(Tail(names), used \cup {email},
                           Append(acc, <<first_name, last_name, email>>))

\* variant: sampling with replacement (the pool is not updated)
RECURSIVE SampleWithReplacement(_, _, _, _, _)
SampleWithReplacement(pool, k, js, i, result) ==
    IF i = k THEN result
    ELSE SampleWithReplacement(pool, k, js, i + 1,
                               Append(result, pool[js[i + 1] + 1]))

\* random.sample(population, k) for a small population: k draws j = js[i]
\* below n - i, each taken out of the pool by moving the pool's last entry
\* into its place.  i counts from 0.
RECURSIVE SamplePool(_, _, _, _, _)
SamplePool(pool, k, js, i, result) ==
    IF i = k THEN result
    ELSE LET n == Len(pool)
             j == js[i + 1]
         IN  SamplePool([pool EXCEPT ![j + 1] = pool[n - i]], k, js, i + 1,
                        Append(result, pool[j + 1]))

random_sample(population, k, js) == SamplePool(population, k, js, 0, <<>>)

\* the rows one student contributes: one per sampled course, with the
\* semester and year drawn for it
EnrollmentRows(student_id, enrolled_courses, terms) ==
    [i \in 1..Len(enrolled_courses) |->
        <<student_id, enrolled_courses[i], terms[i][1], terms[i][2]>>]

\* the enrollments list of generate_enrollments; ok is FALSE when
\* random.sample raises ValueError (sample larger than population)
RECURSIVE EnrollmentParams(_, _, _, _, _, _)
EnrollmentParams(student_ids, course_ids, nums, js, terms, acc) ==
    IF student_ids = <<>> THEN [ok |-> TRUE, enrollments |-> acc]
    ELSE LET num_courses == Head(nums)
         IN  IF num_courses > Len(course_ids)
             THEN [ok |-> FALSE, enrollments |-> acc]
             ELSE EnrollmentParams(
                     Tail(student_ids), course_ids, Tail(nums), js, terms,
                     acc \o EnrollmentRows(Head(student_ids),
                               random_sample(course_ids, num_courses, js), terms))

----------------------------------------------------------------------------
(* The orchestrator.  Each stage takes the fault the environment injects  *)
(* into it: "none", "IOError" (a storage-layer failure: sqlite3.Error     *)
(* raised by the stage's storage call) or "Exception" (a failure that is  *)
(* not a sqlite3.Error, raised as the stage starts).                      *)

Faults == {"none", "IOError", "Exception"}

Init ==
    /\ pc = "idle"
    /\ conn = "None"
    /\ used_emails = {}
    /\ runs = 0
    /\ schema = {}
    /\ tables = EmptyTables
    /\ txn = EmptyTables
    /\ exc = "none"
    /\ failed = "none"
    /\ out = <<>>

\* UniversityDatabaseManager(): a new manager on the same database file
NewManager ==
    /\ pc = "idle"
    /\ runs > 0
    /\ conn' = "None"
    /\ used_emails' = {}
    /\ runs' = 0
    /\ UNCHANGED <<pc, schema, tables, txn, exc, failed, out>>

\* run_database_generation is called
Call ==
    /\ pc = "idle"
    /\ runs < MaxRuns
    /\ pc' = "create_connection"
    /\ runs' = runs + 1
    /\ exc' = "none"
    /\ failed' = "none"
    /\ out' = <<>>
    /\ UNCHANGED <<conn, used_emails, schema, tables, txn>>

\* variant: the close sits after the try/except instead of in a finally
\* block, so an exception that is not caught leaves without it
HandlerWithoutFinally(e) == IF e \in StorageErrors THEN "except" ELSE "idle"

\* where control goes when exception e leaves the try block: a sqlite3.Error
\* to the except clause, any other exception straight to finally
Handler(e) == IF e \in StorageErrors THEN "except" ELSE "finally"

Raise(e) ==
    /\ exc' = e
    /\ failed' = pc
    /\ pc' = Handler(e)

create_connection(fault) ==
    /\ pc = "create_connection"
    /\ IF fault = "none"
       THEN /\ conn' = "open"
            /\ txn' = EmptyTables
            /\ pc' = "create_tables"
            /\ UNCHANGED <<exc, failed>>
       ELSE Raise(fault) /\ UNCHANGED <<conn, txn>>
    /\ UNCHANGED <<used_emails, runs, schema, tables, out>>

\* an IOError hits the statement after the first n
create_tables(fault, n) ==
    /\ pc = "create_tables"
    /\ IF fault = "Exception"
       THEN Raise(fault) /\ UNCHANGED <<schema, tables>>
       ELSE LET r == RunStatements(Statements,
                        IF fault = "none" THEN Len(Statements) ELSE n,
                        schema, tables)
            IN  /\ schema' = r.schema
                /\ tables' = r.tables
                /\ IF ~r.ok THEN Raise("OperationalError")
                   ELSE IF fault # "none" THEN Raise(fault)
                   ELSE pc' = "generate_departments" /\ UNCHANGED <<exc, failed>>
    /\ UNCHANGED <<conn, used_emails, runs, txn, out>>

\* variant: a failed insert is swallowed and the orchestrator goes on to
\* the next stage
SeedContinuing(t, params, fault, next) ==
    LET r == executemany(t, params, View(tables, txn, t), <<>>)
    IN  IF fault # "none"
        THEN Raise(fault) /\ UNCHANGED <<tables, txn>>
        ELSE IF r.ok
        THEN /\ tables' = Commit(tables, [txn EXCEPT ![t] = @ \o r.rows])
             /\ txn' = EmptyTables
             /\ pc' = next
             /\ UNCHANGED <<exc, failed>>
        ELSE /\ txn' = EmptyTables
             /\ pc' = next
             /\ UNCHANGED <<tables, exc, failed>>

\* a seeding stage's executemany of params into table t and the commit that
\* follows: commit and go on to the next stage, or leave the rows inserted
\* so far in the open transaction and raise
Seed(t, params, fault, next) ==
    LET r == executemany(t, params, View(tables, txn, t), <<>>)
    IN  IF fault # "none"
        THEN Raise(fault) /\ UNCHANGED <<tables, txn>>
        ELSE IF r.ok
        THEN /\ tables' = Commit(tables, [txn EXCEPT ![t] = @ \o r.rows])
             /\ txn' = EmptyTables
             /\ pc' = next
             /\ UNCHANGED <<exc, failed>>
        ELSE /\ txn' = [txn EXCEPT ![t] = @ \o r.rows]
             /\ Raise("IntegrityError")
             /\ UNCHANGED tables

generate_departments(fault) ==
    /\ pc = "generate_departments"
    /\ Seed("Departments", departments, fault, "generate_courses")
    /\ UNCHANGED <<conn, used_emails, runs, schema, out>>

generate_courses(numbers, fault) ==
    /\ pc = "generate_courses"
    /\ LET dept_rows == View(tables, txn, "Departments")
       IN  Seed("Courses", CourseParams(dept_rows, numbers), fault,
                "generate_students")
    /\ UNCHANGED <<conn, used_emails, runs, schema, out>>

generate_students(names, fault) ==
    /\ pc = "generate_students"
    /\ IF fault = "Exception"
       THEN Raise(fault) /\ UNCHANGED <<used_emails, tables, txn>>
       ELSE LET g == StudentParams(names, used_emails, <<>>)
            IN  /\ used_emails' = g.used
                /\ Seed("Students", g.students, fault, "generate_enrollments")
    /\ UNCHANGED <<conn, runs, schema, out>>

generate_enrollments(nums, js, terms, fault) ==
    /\ pc = "generate_enrollments"
    /\ LET student_rows == View(tables, txn, "Students")
           course_rows  == View(tables, txn, "Courses")
           students == [i \in 1..Len(student_rows) |-> student_rows[i].student_id]
           courses  == [i \in 1..Len(course_rows) |-> course_rows[i].course_id]
           g == EnrollmentParams(students, courses, nums, js, terms, <<>>)
       IN  IF fault = "none" /\ ~g.ok
           THEN Raise("ValueError") /\ UNCHANGED <<tables, txn>>
           ELSE Seed("Enrollments", g.enrollments, fault, "report")
    /\ UNCHANGED <<conn, used_emails, runs, schema, out>>

\* the completion message and the three COUNT(*) queries; an IOError hits
\* the first query, after the message
report(fault) ==
    /\ pc = "report"
    /\ IF fault = "none"
       THEN /\ out' = out \o
                   << <<"University Database generated successfully!">>,
                      <<"Total Students", Len(View(tables, txn, "Students"))>>,
                      <<"Total Courses", Len(View(tables, txn, "Courses"))>>,
                      <<"Total Enrollments",
                        Len(View(tables, txn, "Enrollments"))>> >>
            /\ pc' = "finally"
            /\ UNCHANGED <<exc, failed>>
       ELSE /\ out' = IF fault = "IOError"
                      THEN Append(out,
                             <<"University Database generated successfully!">>)
                      ELSE out
            /\ Raise(fault)
    /\ UNCHANGED <<conn, used_emails, runs, schema, tables, txn>>

\* except sqlite3.Error as e: print(f"Database error: {e}")
except_clause ==
    /\ pc = "except"
    /\ out' = Append(out, <<"Database error", exc>>)
    /\ pc' = "finally"
    /\ UNCHANGED <<conn, used_emails, runs, schema, tables, txn, exc, failed>>

\* variant: the completion message is printed in the finally block
finally_clause_announcing ==
    /\ pc = "finally"
    /\ IF conn # "None"
       THEN /\ conn' = "closed"
            /\ tables' = Close(tables, txn).tables
            /\ txn' = Close(tables, txn).txn
       ELSE UNCHANGED <<conn, tables, txn>>
    /\ out' = Append(out, <<"University Database generated successfully!">>)
    /\ pc' = "idle"
    /\ UNCHANGED <<used_emails, runs, schema, exc, failed>>

\* finally: if self.conn: self.conn.close(); then the call returns, or the
\* exception the except clause did not catch leaves it
finally_clause ==
    /\ pc = "finally"
    /\ IF conn # "None"
       THEN /\ conn' = "closed"
            /\ tables' = Close(tables, txn).tables
            /\ txn' = Close(tables, txn).txn
       ELSE UNCHANGED <<conn, tables, txn>>
    /\ pc' = "idle"
    /\ UNCHANGED <<used_emails, runs, schema, exc, failed, out>>

----------------------------------------------------------------------------
(* Inputs *)

\* random.randint(100, 999)
RandLo == 100
RandHi == 999

\* the three numbers drawn for one department: all different, or the third
\* equal to the first
NumberTriples == {<<RandLo, 101, RandHi>>, <<RandLo, RandHi, RandLo>>}

RECURSIVE Flatten(_)
Flatten(ss) == IF ss = <<>> THEN <<>> ELSE Head(ss) \o Flatten(Tail(ss))

CourseNumbers == {Flatten(f) : f \in [1..NumDepartments -> NumberTriples]}

\* numbers without a collision
DistinctNumbers == Flatten([d \in 1..NumDepartments |-> <<RandLo, 101, RandHi>>])

\* first and last names
NamePairs == {<< <<"J", "o">>, <<"L", "i">> >>, << <<"A", "l">>, <<"L", "i">> >>}

\* names whose lower-cased forms collide, and one ending in a digit
EmailPairs == {<< <<"J", "o">>, <<"L", "i">> >>,
               << <<"j", "o">>, <<"l", "i">> >>,
               << <<"j", "o">>, <<"l", "i", "1">> >>}

\* random.randint(3, 5) for each student: the least for all, the most for
\* all, or changing from student to student
NumCourses ==
    {[i \in 1..num_students |-> MinCourses],
     [i \in 1..num_students |-> MaxCourses],
     [i \in 1..num_students |-> MinCourses + (i % (MaxCourses - MinCourses + 1))]}

\* the draws of random.sample for a population of n: always the first entry
\* of the pool, or always the last
SampleDraws(n) == {[i \in 1..MaxCourses |-> 0],
                   [i \in 1..MaxCourses |-> IF n >= i THEN n - i ELSE 0]}

\* the (semester, year) drawn for a student's i-th course: the same for all,
\* or changing from course to course
TermDraws ==
    {[i \in 1..MaxCourses |-> <<semesters[1], academic_years[1]>>],
     [i \in 1..MaxCourses |->
        <<semesters[(i % Len(semesters)) + 1],
          academic_years[(i % Len(academic_years)) + 1]>>]}

NCourses == Len(View(tables, txn, "Courses"))

Next ==
    \/ NewManager
    \/ Call
    \/ \E f \in Faults : create_connection(f)
    \/ \E f \in Faults, n \in 0..(Len(Statements) - 1) : create_tables(f, n)
    \/ \E f \in Faults : generate_departments(f)
    \/ \E f \in Faults, numbers \in CourseNumbers : generate_courses(numbers, f)
    \/ \E f \in Faults, names \in [1..num_students -> NamePairs] :
          generate_students(names, f)
    \/ \E f \in Faults, nums \in NumCourses, js \in SampleDraws(NCourses),
          terms \in TermDraws : generate_enrollments(nums, js, terms, f)
    \/ \E f \in Faults : report(f)
    \/ except_clause
    \/ finally_clause

Spec == Init /\ [][Next]_vars


\* the student stage alone under test: no injected fault, one choice for
\* every other draw, names that collide
NextEmail ==
    \/ NewManager
    \/ Call
    \/ create_connection("none")
    \/ create_tables("none", 0)
    \/ generate_departments("none")
    \/ generate_courses(DistinctNumbers, "none")
    \/ \E names \in [1..num_students -> EmailPairs] :
          generate_students(names, "none")
    \/ \E nums \in NumCourses, js \in SampleDraws(NCourses), terms \in TermDraws :
          generate_enrollments(nums, js, terms, "none")
    \/ report("none")
    \/ finally_clause

SpecEmail == Init /\ [][NextEmail]_vars

----------------------------------------------------------------------------
(* What the current (or, between calls, the latest) call has done *)

SeedingStages == {"generate_departments", "generate_courses",
                  "generate_students", "generate_enrollments"}

TableOf(stage) ==
    CASE stage = "generate_departments" -> "Departments"
      [] stage = "generate_courses"     -> "Courses"
      [] stage = "generate_students"    -> "Students"
      [] stage = "generate_enrollments" -> "Enrollments"

\* a call has been made since the store was last looked at
Called == pc # "idle" \/ failed # "none" \/ out # <<>>

\* stage s ran to its end (for a seeding stage: committed) in this call
Completed(s) ==
    /\ Called
    /\ IF failed # "none" THEN StageNo(s) < StageNo(failed)
       ELSE IF pc \in {"finally", "idle"} THEN TRUE
       ELSE StageNo(s) < StageNo(pc)

\* the call has returned or raised
Finished == pc = "idle" /\ Called

SuccessLine == <<"University Database generated successfully!">>

Printed(line) == \E i \in 1..Len(out) : out[i] = line

Ids(rows, field) == {rows[i][field] : i \in 1..Len(rows)}

RowsOf(student_id) ==
    {i \in 1..Len(tables["Enrollments"]) :
        tables["Enrollments"][i].student_id = student_id}

----------------------------------------------------------------------------
(* Claims *)

\* C1: no two students of a run share an email: every email that
\* generate_unique_email returns differs from every email it returned
\* before (each call adds one new member to used_emails), the student rows
\* carry pairwise different emails, and the Students insert never fails on
\* UNIQUE(email).
C1_UniqueEmails ==
    /\ \A i, j \in 1..Len(View(tables, txn, "Students")) :
          i # j => View(tables, txn, "Students")[i].email
                     # View(tables, txn, "Students")[j].email
    /\ ~(failed = "generate_students" /\ exc = "IntegrityError")
    /\ runs > 0 /\ Completed("generate_students") =>
          /\ Len(tables["Students"]) = num_students
          /\ Ids(tables["Students"], "email") \subseteq used_emails
    /\ runs > 0 =>
          Cardinality(used_emails) =
             num_students * (IF Completed("generate_students")
                             THEN runs ELSE runs - 1)

\* C1 witness: in the first run of a manager a name ending in a digit took
\* the email that the counter would have produced, and a later collision got
\* the counter value after it.
C1_Witness ==
    /\ runs = 1
    /\ Completed("generate_students")
    /\ \E i, j \in 1..Len(tables["Students"]) :
          /\ i < j
          /\ tables["Students"][i].last_name = <<"l", "i", "1">>
          /\ tables["Students"][i].email = <<"j", "o", ".", "l", "i", "1">> \o Domain
          /\ tables["Students"][j].email = <<"j", "o", ".", "l", "i", "2">> \o Domain

\* C2: when the call has finished without an injected fault, the store
\* holds all departments, three courses per department, num_students
\* students and between 3 and 5 enrollments per student, whatever the
\* random draws were.
C2_RowCounts ==
    Finished /\ exc \notin {"IOError", "Exception"} =>
        /\ Len(tables["Departments"]) = Len(departments)
        /\ Len(tables["Courses"]) = Len(departments) * Len(course_levels)
        /\ Len(tables["Students"]) = num_students
        /\ Len(tables["Enrollments"]) >= MinCourses * num_students
        /\ Len(tables["Enrollments"]) <= MaxCourses * num_students

\* C3: once generate_enrollments has committed, every student has 3 to 5
\* enrollment rows, with pairwise different course ids; no two rows share
\* (student, course, semester, year), and the stage never fails on the
\* UNIQUE constraint.
C3_DistinctCourses ==
    /\ ~(failed = "generate_enrollments" /\ exc = "IntegrityError")
    /\ Completed("generate_enrollments") =>
          /\ \A s \in Ids(tables["Students"], "student_id") :
                /\ Cardinality(RowsOf(s)) >= MinCourses
                /\ Cardinality(RowsOf(s)) <= MaxCourses
                /\ \A i, j \in RowsOf(s) :
                      i # j => tables["Enrollments"][i].course_id
                                 # tables["Enrollments"][j].course_id
          /\ \A i, j \in 1..Len(tables["Enrollments"]) :
                i # j =>
                   <<tables["Enrollments"][i].student_id,
                     tables["Enrollments"][i].course_id,
                     tables["Enrollments"][i].semester,
                     tables["Enrollments"][i].academic_year>>
                   # <<tables["Enrollments"][j].student_id,
                       tables["Enrollments"][j].course_id,
                       tables["Enrollments"][j].semester,
                       tables["Enrollments"][j].academic_year>>

\* C3 witness: a student enrolled in five courses, all in the same semester
\* of the same year, so that only the course ids tell the rows apart.
C3_Witness ==
    /\ Completed("generate_enrollments")
    /\ \E s \in Ids(tables["Students"], "student_id") :
          /\ Cardinality(RowsOf(s)) = MaxCourses
          /\ \A i, j \in RowsOf(s) :
                /\ tables["Enrollments"][i].semester
                     = tables["Enrollments"][j].semester
                /\ tables["Enrollments"][i].academic_year
                     = tables["Enrollments"][j].academic_year

\* C4: in every state of the committed store, each course's department_id
\* is the id of a department row and each enrollment's student_id and
\* course_id are the ids of a student row and of a course row.
C4_ReferentialIntegrity ==
    /\ \A i \in 1..Len(tables["Courses"]) :
          tables["Courses"][i].department_id
             \in Ids(tables["Departments"], "department_id")
    /\ \A i \in 1..Len(tables["Enrollments"]) :
          /\ tables["Enrollments"][i].student_id
                \in Ids(tables["Students"], "student_id")
          /\ tables["Enrollments"][i].course_id
                \in Ids(tables["Courses"], "course_id")

\* C4 witness: all four stages committed, courses of two departments and
\* enrollments of every student are in the store.
C4_Witness ==
    /\ pc = "report"
    /\ Cardinality(Ids(tables["Courses"], "department_id")) >= 2
    /\ Ids(tables["Enrollments"], "student_id")
          = Ids(tables["Students"], "student_id")

\* the rows a committed seeding stage leaves in its table
FullTable(s) ==
    CASE s = "generate_departments" ->
            Len(tables["Departments"]) = Len(departments)
      [] s = "generate_courses" ->
            Len(tables["Courses"]) = Len(departments) * Len(course_levels)
      [] s = "generate_students" -> Len(tables["Students"]) = num_students
      [] s = "generate_enrollments" ->
            /\ Len(tables["Enrollments"]) >= MinCourses * num_students
            /\ Len(tables["Enrollments"]) <= MaxCourses * num_students

\* C5: the stages run in the fixed order with a commit after each seeding
\* stage: when a storage-layer failure is raised in stage k, the rows of
\* the seeding stages before k are committed, stage k and the stages after
\* it have contributed no rows, control is in the except clause, the
\* finally block or back at the caller (no later stage runs and stage k is
\* not run again), and after the close nothing is left uncommitted.
C5_StageAtomicity ==
    /\ \A s \in SeedingStages :
          /\ Completed(s) => FullTable(s)
          /\ Completed("create_tables") /\ ~Completed(s) =>
                tables[TableOf(s)] = <<>>
    /\ failed # "none" => pc \in {"except", "finally", "idle"}
    /\ pc = "idle" => txn = EmptyTables

\* C5 witness: a storage-layer failure in the course stage after some of
\* its rows had been inserted; the call is over, the departments are
\* committed, no course is.
C5_Witness ==
    /\ pc = "idle"
    /\ failed = "generate_courses"
    /\ exc = "IntegrityError"
    /\ Len(tables["Departments"]) = Len(departments)
    /\ tables["Courses"] = <<>>
    /\ tables["Students"] = <<>>

\* C6: when the call is over (it returned, or an exception left it), the
\* connection is not open.
C6_ConnectionReleased == pc = "idle" => conn # "open"

\* C6 witness: a call that ended with an exception the except clause does
\* not catch, raised after the connection was opened, with the connection
\* closed.
C6_Witness ==
    /\ pc = "idle"
    /\ exc = "Exception"
    /\ failed = "generate_students"
    /\ conn = "closed"

\* C7: a rerun on the same database file starts from empty tables: once
\* the schema stage of a call has run, all four tables exist and each
\* holds rows only if its own stage committed in this call; Departments
\* never holds more rows than one run inserts; the schema stage never
\* fails on an existing table and the department stage never fails on
\* UNIQUE(department_name).
C7_SchemaIdempotent ==
    /\ Completed("create_tables") =>
          /\ schema = TableNames
          /\ \A s \in SeedingStages :
                ~Completed(s) => tables[TableOf(s)] = <<>>
    /\ Len(tables["Departments"]) <= Len(departments)
    /\ Len(tables["Students"]) <= num_students
    /\ ~(failed = "create_tables" /\ exc = "OperationalError")
    /\ ~(failed = "generate_departments" /\ exc = "IntegrityError")

\* C7 witness: the second call on a manager whose first call generated
\* students has passed the schema stage, and the tables are empty.
C7_Witness ==
    /\ pc = "generate_departments"
    /\ runs = 2
    /\ used_emails # {}
    /\ tables = EmptyTables
    /\ schema = TableNames

\* C8: at the start of every call of run_database_generation the set of
\* issued emails is empty.
C8_EmailsResetEachRun == pc = "create_connection" => used_emails = {}

\* C9: the completion message is printed only after all four seeding
\* stages have committed; when a storage-layer failure was raised in a
\* stage up to the enrollment stage, the message is not printed and, once
\* the call is over, the error has been printed.
C9_CompletionMessage ==
    /\ Printed(SuccessLine) =>
          /\ Completed("generate_enrollments")
          /\ \A s \in SeedingStages : FullTable(s)
    /\ failed \notin {"none", "report"} /\ exc \in StorageErrors =>
          /\ ~Printed(SuccessLine)
          /\ pc \in {"finally", "idle"} => Printed(<<"Database error", exc>>)

\* C9 witness: a call that failed in the course stage has ended having
\* printed the error and nothing else.
C9_Witness ==
    /\ pc = "idle"
    /\ failed = "generate_courses"
    /\ exc = "IntegrityError"
    /\ out = << <<"Database error", "IntegrityError">> >>

\* C10: whenever the enrollment stage is reached the Courses table holds at
\* least 5 rows, random.sample never raises ValueError, and a call whose
\* course stage failed never reaches the enrollment stage.
C10_EnoughCourses ==
    /\ pc = "generate_enrollments" => Len(tables["Courses"]) >= MaxCourses
    /\ exc # "ValueError"
    /\ failed = "generate_courses" =>
          pc \notin {"generate_students", "generate_enrollments", "report"}

\* C10 witness: the enrollment stage has sampled five courses for every
\* student.
C10_Witness ==
    /\ pc = "report"
    /\ Len(tables["Courses"]) >= MaxCourses
    /\ Len(tables["Enrollments"]) = MaxCourses * num_students

=============================================================================
